---- MODULE Spec2Model ----
(***************************************************************************)
(* nb-from: create a note from another note used as a template.            *)
(*                                                                         *)
(* A text is a sequence of tokens.  A token is one character ("#", "a", a  *)
(* line terminator) or, inside a template, one whole Eta output tag such   *)
(* as "<%= x %>".  The bytes nb prints and the string TextDecoder makes of *)
(* them are the same token sequence (the alphabet is ASCII).               *)
(***************************************************************************)
EXTENDS Integers, Sequences, FiniteSets, TLC

VARIABLES cli, argv, pc, hist, template, note, scope, rendered,
          inflight, calls, store, out, err, exit

vars == <<cli, argv, pc, hist, template, note, scope, rendered,
          inflight, calls, store, out, err, exit>>

(* ------------------------------ bounds -------------------------------- *)

\* longest text `nb show` prints for the template note
MaxLen == 3

(* ------------------------------ alphabet ------------------------------ *)

\* ECMAScript LineTerminator code points that occur in the texts
LineTerminators == {"\n", "\r"}

Chars == {"#", "a"} \cup LineTerminators

\* Eta output tags that occur in the templates
RefTokens == {"<%= x %>"}

RefName(tok) == IF tok = "<%= x %>" THEN "x" ELSE "date"

Tokens == Chars \cup RefTokens

SeqsUpTo(S, n) == UNION {[1..k -> S] : k \in 0..n}

Templates == SeqsUpTo(Tokens, MaxLen)

\* diagnostics nb writes to its error stream
Diags == {<<"e">>, <<"e", "\n">>}

\* the imported moment function, as a value of the render scope
MomentFn == <<"[Function: moment]">>

\* what the option default moment() shows as
Today == <<"today">>

Titles == {<<>>, <<"T">>, <<"$", "&">>, <<"$", "$">>, <<"T", "$">>}

EmptyFn == [n \in {} |-> <<>>]

\* an option the command line may or may not carry
Opt(k, Vs) == {EmptyFn} \cup {k :> v : v \in Vs}

Has(f, k) == k \in DOMAIN f

\* faulty variant: a test of presence instead of truthiness
PresentStr(f, k) == Has(f, k)

\* JavaScript truthiness of the optional string entry f[k]
TruthyStr(f, k) == Has(f, k) /\ f[k] # <<>>

\* JavaScript truthiness of the optional boolean entry f[k]
TruthyBool(f, k) == Has(f, k) /\ f[k] = TRUE

(* ---------------------- String.prototype.replace ---------------------- *)

\* positions where /^\#/m matches: a "#" at the start of the text or right
\* after a line terminator
HeadingStarts(s) ==
  {i \in 1..Len(s) : s[i] = "#" /\ (i = 1 \/ s[i-1] \in LineTerminators)}

HasHeading(s) == HeadingStarts(s) # {}

Min(S) == CHOOSE m \in S : \A n \in S : m <= n

Max(S) == CHOOSE m \in S : \A n \in S : m >= n

\* the first match of the regular expression starts here
MatchStart(s) == Min(HeadingStarts(s))

\* faulty variant: the match swallows the line terminator that follows the line
MatchEndWithTerminator(s, i) ==
  LET j == Max({j \in i..Len(s) : \A k \in (i+1)..j : s[k] \notin LineTerminators})
  IN IF j < Len(s) THEN j + 1 ELSE j

\* greedy .* followed by $ under the m flag: the match runs up to, and not
\* into, the next line terminator (or to the end of the text)
MatchEnd(s, i) ==
  Max({j \in i..Len(s) : \A k \in (i+1)..j : s[k] \notin LineTerminators})

RECURSIVE GetSubstitution(_, _, _, _)
\* the replacement string with its $ patterns expanded (no capture groups)
GetSubstitution(repl, matched, before, after) ==
  IF repl = <<>> THEN <<>>
  ELSE IF Len(repl) >= 2 /\ repl[1] = "$" /\ repl[2] = "$"
    THEN <<"$">> \o GetSubstitution(SubSeq(repl, 3, Len(repl)), matched, before, after)
  ELSE IF Len(repl) >= 2 /\ repl[1] = "$" /\ repl[2] = "&"
    THEN matched \o GetSubstitution(SubSeq(repl, 3, Len(repl)), matched, before, after)
  ELSE IF Len(repl) >= 2 /\ repl[1] = "$" /\ repl[2] = "`"
    THEN before \o GetSubstitution(SubSeq(repl, 3, Len(repl)), matched, before, after)
  ELSE IF Len(repl) >= 2 /\ repl[1] = "$" /\ repl[2] = "'"
    THEN after \o GetSubstitution(SubSeq(repl, 3, Len(repl)), matched, before, after)
  ELSE <<repl[1]>> \o GetSubstitution(Tail(repl), matched, before, after)

\* faulty variant: the first line is replaced whatever it starts with, terminator
\* included
ReplaceFirstLine(s, repl) ==
  IF s = <<>> THEN s
  ELSE LET j == Min({j \in 1..Len(s) : j = Len(s) \/ s[j] \in LineTerminators})
       IN repl \o SubSeq(s, j + 1, Len(s))

\* s.replace(/^\#.*$/m, repl): the first match only, the text unchanged when
\* nothing matches
ReplaceHeading(s, repl) ==
  IF ~HasHeading(s) THEN s
  ELSE LET i == MatchStart(s)
           j == MatchEnd(s, i)
           before == SubSeq(s, 1, i - 1)
           matched == SubSeq(s, i, j)
           after == SubSeq(s, j + 1, Len(s))
       IN before \o GetSubstitution(repl, matched, before, after) \o after

\* the heading rewrite of the command handler
RewriteHeading(text, a) ==
  IF TruthyStr(a, "title") THEN ReplaceHeading(text, <<"#", " ">> \o a["title"])
  ELSE IF TruthyBool(a, "removeTitle") THEN ReplaceHeading(text, <<>>)
  ELSE text

(* ------------------------------ rendering ----------------------------- *)

\* Eta trims one newline that directly follows a tag (autoTrim [false, "nl"])
TrimNl(s) ==
  IF Len(s) >= 2 /\ s[1] = "\r" /\ s[2] = "\n" THEN SubSeq(s, 3, Len(s))
  ELSE IF Len(s) >= 1 /\ s[1] \in LineTerminators THEN Tail(s)
  ELSE s

\* with useWith a bare name resolves against the mapping; a name the mapping
\* lacks is a ReferenceError
RefsBound(tpl, v) ==
  \A i \in 1..Len(tpl) : tpl[i] \in RefTokens => RefName(tpl[i]) \in DOMAIN v

RECURSIVE Expand(_, _)
Expand(tpl, v) ==
  IF tpl = <<>> THEN <<>>
  ELSE IF tpl[1] \in RefTokens
    THEN v[RefName(tpl[1])] \o Expand(TrimNl(Tail(tpl)), v)
  ELSE <<tpl[1]>> \o Expand(Tail(tpl), v)

RECURSIVE ExpandSilent(_, _)
ExpandSilent(tpl, v) ==
  IF tpl = <<>> THEN <<>>
  ELSE IF tpl[1] \in RefTokens
    THEN (IF RefName(tpl[1]) \in DOMAIN v THEN v[RefName(tpl[1])] ELSE <<>>)
           \o ExpandSilent(TrimNl(Tail(tpl)), v)
  ELSE <<tpl[1]>> \o ExpandSilent(Tail(tpl), v)

\* faulty variant: an undefined name renders as the empty string instead of raising
renderTemplateSilent(tpl, v) == [ok |-> TRUE, text |-> ExpandSilent(tpl, v)]

\* eta.renderString(template, vars): the text, or a thrown rendering error
renderTemplate(tpl, v) ==
  IF RefsBound(tpl, v) THEN [ok |-> TRUE, text |-> Expand(tpl, v)]
  ELSE [ok |-> FALSE, text |-> <<>>]

\* faulty variant: { moment, ...argv }, an option named moment wins
RenderScopeArgvLast(a) ==
  [n \in DOMAIN a \cup {"moment"} |-> IF n \in DOMAIN a THEN a[n] ELSE MomentFn]

\* the object literal { ...argv, moment }: a later key wins
RenderScope(a) ==
  [n \in DOMAIN a \cup {"moment"} |-> IF n = "moment" THEN MomentFn ELSE a[n]]

(* ------------------------- the command line --------------------------- *)

\* Deno.args as yargs reads them: positionals and options by name
CommandLines ==
  {("template" :> <<"tpl">>) @@ n @@ t @@ r @@ d @@ dt @@ x @@ m :
     n \in Opt("note", {<<"new.md">>}),
     t \in Opt("title", Titles),
     r \in Opt("removeTitle", {FALSE}),
     d \in Opt("dry-run", {TRUE}),
     dt \in Opt("date", {<<"d">>}),
     x \in Opt("x", {<<"v">>}),
     m \in Opt("moment", {<<"m">>})}

\* the option defaults of the command builder
Defaults == ("date" :> Today) @@ ("removeTitle" :> TRUE) @@ ("dry-run" :> FALSE)

\* '$0 <template> <note>': both positionals are required
Positionals == {"template", "note"}

\* a Deno.CommandOutput not yet received
NoOutput == [code |-> -1, stdout |-> <<>>, stderr |-> <<>>]

\* console.error(x) for a Uint8Array x prints its inspected form, not its text
Inspect(bytes) == [fmt |-> "Uint8Array", bytes |-> bytes]

UsageText == [fmt |-> "usage", bytes |-> <<>>]

\* console.log("Note created.")
Confirmation == <<"Note created.", "\n">>

\* what `nb show` can report: a non-zero status with a diagnostic, or status
\* 0 with the template's text
ReadResults ==
  {[code |-> 1, stdout |-> <<>>, stderr |-> d] : d \in Diags}
    \cup {[code |-> 0, stdout |-> t, stderr |-> <<>>] : t \in Templates}

\* what `nb add` can report
WriteResults ==
  {[code |-> 1, stdout |-> <<>>, stderr |-> d] : d \in Diags}
    \cup {[code |-> 0, stdout |-> <<>>, stderr |-> <<>>]}

\* faulty variant: the status test never fires
FailedNever(result) == result.code < 0

\* the handler's test of a command's status: result.code !== 0
Failed(result) == result.code # 0

Terminal == {"Done", "Error", "Aborted", "UsageError"}

Goto(p) == /\ pc' = p
           /\ hist' = Append(hist, p)

(* ------------------------------- actions ------------------------------ *)

Init ==
  /\ cli \in CommandLines
  /\ argv = EmptyFn
  /\ pc = "ParseArgs"
  /\ hist = <<"ParseArgs">>
  /\ template = NoOutput
  /\ note = NoOutput
  /\ scope = EmptyFn
  /\ rendered = <<>>
  /\ inflight = {}
  /\ calls = <<>>
  /\ store = <<>>
  /\ out = <<>>
  /\ err = <<>>
  /\ exit = "running"

\* yargs parses the command line, applies the defaults and runs the handler,
\* or fails with a usage error
ParseArgs ==
  /\ pc = "ParseArgs"
  /\ IF Positionals \subseteq DOMAIN cli
       THEN /\ argv' = cli @@ Defaults
            /\ Goto("FetchTemplate")
            /\ UNCHANGED <<err, exit>>
       ELSE /\ err' = Append(err, UsageText)
            /\ exit' = "usage"
            /\ Goto("UsageError")
            /\ UNCHANGED argv
  /\ UNCHANGED <<cli, template, note, scope, rendered, inflight, calls, store, out>>

\* getTemplate(argv.template) starts `nb show --no-color --print <template>`
GetTemplateCall ==
  /\ pc = "FetchTemplate"
  /\ inflight = {}
  /\ calls' = Append(calls, [op |-> "getTemplate", args |-> <<argv["template"]>>])
  /\ inflight' = {"getTemplate"}
  /\ UNCHANGED <<cli, argv, pc, hist, template, note, scope, rendered, store, out, err, exit>>

\* the awaited output arrives: the spawn failed, nb reported a non-zero status
\* (diagnostic printed, exit 1), or nb printed the template
GetTemplateReturn ==
  /\ pc = "FetchTemplate"
  /\ inflight = {"getTemplate"}
  /\ inflight' = {}
  /\ \/ /\ Goto("Aborted")
        /\ exit' = "thrown"
        /\ UNCHANGED <<template, err>>
     \/ \E result \in ReadResults :
          /\ template' = result
          /\ IF Failed(result)
               THEN /\ err' = Append(err, Inspect(result.stderr))
                    /\ exit' = "1"
                    /\ Goto("Error")
               ELSE /\ Goto("Render")
                    /\ UNCHANGED <<err, exit>>
  /\ UNCHANGED <<cli, argv, note, scope, rendered, calls, store, out>>

\* renderTemplate(decoded stdout, { ...argv, moment })
Render ==
  /\ pc = "Render"
  /\ scope' = RenderScope(argv)
  /\ LET r == renderTemplate(template.stdout, RenderScope(argv))
     IN IF r.ok
          THEN /\ rendered' = r.text
               /\ Goto("RewriteHeading")
               /\ UNCHANGED exit
          ELSE /\ Goto("Aborted")
               /\ exit' = "thrown"
               /\ UNCHANGED rendered
  /\ UNCHANGED <<cli, argv, template, note, inflight, calls, store, out, err>>

\* the title replacement or removal, then the dry-run test
Rewrite ==
  /\ pc = "RewriteHeading"
  /\ rendered' = RewriteHeading(rendered, argv)
  /\ Goto(IF TruthyBool(argv, "dry-run") THEN "DryRunOutput" ELSE "CommitNote")
  /\ UNCHANGED <<cli, argv, template, note, scope, inflight, calls, store, out, err, exit>>

\* faulty variant: the exit after the dry-run print is missing and the handler goes
\* on to create the note
DryRunOutputFallsThrough ==
  /\ pc = "DryRunOutput"
  /\ \E n \in 0..Len(rendered) : out' = out \o SubSeq(rendered, 1, n)
  /\ Goto("CommitNote")
  /\ UNCHANGED <<cli, argv, template, note, scope, rendered, inflight, calls, store, err, exit>>

\* Deno.stdout.write(...) is started and its promise dropped, then
\* Deno.exit(0): the stream holds whatever part of the text the write had
\* delivered when the process exited
DryRunOutput ==
  /\ pc = "DryRunOutput"
  /\ \E n \in 0..Len(rendered) : out' = out \o SubSeq(rendered, 1, n)
  /\ exit' = "0"
  /\ Goto("Done")
  /\ UNCHANGED <<cli, argv, template, note, scope, rendered, inflight, calls, store, err>>

\* faulty variant: the two arguments of createNote swapped
CreateNoteCallSwapped ==
  /\ pc = "CommitNote"
  /\ inflight = {}
  /\ calls' = Append(calls, [op |-> "createNote", args |-> <<rendered, argv["note"]>>])
  /\ inflight' = {"createNote"}
  /\ UNCHANGED <<cli, argv, pc, hist, template, note, scope, rendered, store, out, err, exit>>

\* createNote(argv.note, rendered) starts `nb add --filename .. --content ..`
CreateNoteCall ==
  /\ pc = "CommitNote"
  /\ inflight = {}
  /\ calls' = Append(calls, [op |-> "createNote", args |-> <<argv["note"], rendered>>])
  /\ inflight' = {"createNote"}
  /\ UNCHANGED <<cli, argv, pc, hist, template, note, scope, rendered, store, out, err, exit>>

\* the awaited output arrives: the spawn failed, nb rejected the note
\* (diagnostic printed, exit 1), or nb created it (confirmation printed)
CreateNoteReturn ==
  /\ pc = "CommitNote"
  /\ inflight = {"createNote"}
  /\ inflight' = {}
  /\ \/ /\ Goto("Aborted")
        /\ exit' = "thrown"
        /\ UNCHANGED <<note, store, out, err>>
     \/ \E result \in WriteResults :
          /\ note' = result
          /\ store' = IF result.code = 0
                         THEN Append(store, [filename |-> calls[Len(calls)].args[1],
                                             content |-> calls[Len(calls)].args[2]])
                         ELSE store
          /\ IF Failed(result)
               THEN /\ err' = Append(err, Inspect(result.stderr))
                    /\ exit' = "1"
                    /\ Goto("Error")
                    /\ UNCHANGED out
               ELSE /\ out' = out \o Confirmation
                    /\ exit' = "0"
                    /\ Goto("Done")
                    /\ UNCHANGED err
  /\ UNCHANGED <<cli, argv, template, scope, rendered, calls>>

Next ==
  \/ ParseArgs
  \/ GetTemplateCall
  \/ GetTemplateReturn
  \/ Render
  \/ Rewrite
  \/ DryRunOutput
  \/ CreateNoteCall
  \/ CreateNoteReturn

Spec == Init /\ [][Next]_vars

(* ------------------------------ properties ---------------------------- *)

Visited(p) == \E i \in 1..Len(hist) : hist[i] = p

\* the calls of one note-store operation, by position in the call log
Called(op) == {i \in 1..Len(calls) : calls[i].op = op}

DryRun == Has(argv, "dry-run") /\ argv["dry-run"] = TRUE

ReadFailed == template # NoOutput /\ template.code # 0

WriteFailed == note # NoOutput /\ note.code # 0

\* C1: with --dry-run the only note-store call is getTemplate, createNote is
\* never called, and the run that reaches the dry-run output ends with the
\* whole final text on standard output and exit code 0.
C1_DryRunPrintsFinalText ==
  DryRun =>
    /\ Called("createNote") = {}
    /\ pc = "Done" => /\ out = rendered
                      /\ exit = "0"
                      /\ Len(calls) = 1
                      /\ calls[1].op = "getTemplate"

IsTerminator(c) == c = "\n" \/ c = "\r"

\* the positions that begin a line whose first character is "#"
HashLines(s) ==
  {i \in 1..Len(s) : s[i] = "#" /\ (i = 1 \/ IsTerminator(s[i-1]))}

HasHashLine(s) == HashLines(s) # {}

FirstHashLine(s) == CHOOSE i \in HashLines(s) : \A j \in HashLines(s) : i <= j

\* the last position of the line that begins at i
LineEnd(s, i) ==
  CHOOSE j \in i..Len(s) :
    /\ \A k \in (i+1)..j : ~IsTerminator(s[k])
    /\ j = Len(s) \/ IsTerminator(s[j+1])

\* s with its first "#" line replaced by `line`, every other character kept
WithFirstHashLine(s, line) ==
  LET i == FirstHashLine(s)
  IN SubSeq(s, 1, i - 1) \o line \o SubSeq(s, LineEnd(s, i) + 1, Len(s))

NumTerminators(s) == Cardinality({i \in 1..Len(s) : IsTerminator(s[i])})

\* the heading rewrite has run
Rewritten == Visited("RewriteHeading") /\ pc # "RewriteHeading"

\* the text the renderer returned, before the rewrite
PreText == renderTemplate(template.stdout, scope).text

TitleAbsentOrEmpty == ~Has(argv, "title") \/ argv["title"] = <<>>

\* C4: for every supplied non-empty title T and every rendered text with a
\* line beginning with "#", the rewritten text is the rendered text with the
\* first such line replaced by exactly "# " followed by T, everything else
\* unchanged (whatever removeTitle is).
C4_TitleReplacesFirstHeading ==
  (Rewritten /\ ~TitleAbsentOrEmpty /\ HasHashLine(PreText)) =>
    rendered = WithFirstHashLine(PreText, <<"#", " ">> \o argv["title"])

\* C5: with no title supplied and removeTitle true, the first line beginning
\* with "#" is replaced by an empty line in place: its terminator and every
\* other character, later "#" lines included, are kept.
C5_HeadingRemoval ==
  (Rewritten /\ ~Has(argv, "title") /\ argv["removeTitle"] /\ HasHashLine(PreText)) =>
    /\ rendered = WithFirstHashLine(PreText, <<>>)
    /\ NumTerminators(rendered) = NumTerminators(PreText)

C5_Witness ==
  /\ Rewritten
  /\ ~Has(argv, "title")
  /\ argv["removeTitle"]
  /\ Cardinality(HashLines(PreText)) >= 2
  /\ HasHashLine(rendered)

\* C7: under removeTitle, when the rewritten text has no line beginning with
\* "#" left, a second pass of the heading removal returns it unchanged.
C7_RemovalIdempotent ==
  (Rewritten /\ TitleAbsentOrEmpty /\ argv["removeTitle"] /\ ~HasHashLine(rendered)) =>
    RewriteHeading(rendered, argv) = rendered

C7_Witness ==
  /\ Rewritten
  /\ TitleAbsentOrEmpty
  /\ argv["removeTitle"]
  /\ HasHashLine(PreText)
  /\ ~HasHashLine(rendered)
  /\ rendered # <<>>

AllTagsBound ==
  \A k \in 1..Len(template.stdout) :
    template.stdout[k] \in RefTokens => RefName(template.stdout[k]) \in DOMAIN scope

\* the fetched template rendered against { ...argv, moment } and rewritten
FullyRendered ==
  RewriteHeading(renderTemplate(template.stdout, RenderScope(argv)).text, argv)

\* C6: createNote is called at most once and at most one note is created; a
\* call is made only after a successful read, a rendering that raised no
\* error and the heading rewrite, never under dry-run, and with the fully
\* rendered and rewritten text; a note exists only when that call succeeded,
\* and it holds that text.
C6_NoPartialSuccess ==
  /\ Cardinality(Called("createNote")) <= 1
  /\ Len(store) <= 1
  /\ \A i \in Called("createNote") :
       /\ template.code = 0
       /\ AllTagsBound
       /\ ~DryRun
       /\ Visited("Render")
       /\ Visited("RewriteHeading")
       /\ calls[i].args[2] = FullyRendered
  /\ store # <<>> =>
       /\ note.code = 0
       /\ Called("createNote") # {}
       /\ store[1] = [filename |-> argv["note"], content |-> FullyRendered]
  /\ (ReadFailed \/ DryRun \/ (Visited("Render") /\ ~AllTagsBound)) =>
       (Called("createNote") = {} /\ store = <<>>)

C6_Witness ==
  /\ store # <<>>
  /\ \E k \in 1..Len(template.stdout) : template.stdout[k] \in RefTokens
  /\ HasHashLine(PreText)
  /\ store[1].content # template.stdout

\* the renderer has been called
Rendered == Visited("Render") /\ pc # "Render"

\* C8: the mapping passed to the renderer binds every name supplied on the
\* command line to the supplied value, and binds moment to the date function.
C8_ScopeBindsEverySupplied ==
  Rendered =>
    /\ \A n \in DOMAIN cli : n \in DOMAIN scope /\ scope[n] = cli[n]
    /\ "moment" \in DOMAIN scope
    /\ scope["moment"] = MomentFn

\* C8, amended: the mapping binds every supplied name other than moment to
\* the supplied value, and always binds moment to the date function.
C8_ScopeBindsSuppliedExceptMoment ==
  Rendered =>
    /\ \A n \in DOMAIN cli \ {"moment"} : n \in DOMAIN scope /\ scope[n] = cli[n]
    /\ "moment" \in DOMAIN scope
    /\ scope["moment"] = MomentFn

C8_Witness ==
  /\ Rendered
  /\ {"x", "title", "date", "dry-run", "removeTitle", "moment"} \subseteq DOMAIN cli
  /\ scope["x"] = <<"v">>

\* the transitions of the orchestrator's state machine
Edges ==
  {<<"ParseArgs", "FetchTemplate">>, <<"FetchTemplate", "Render">>,
   <<"Render", "RewriteHeading">>, <<"RewriteHeading", "DryRunOutput">>,
   <<"RewriteHeading", "CommitNote">>, <<"DryRunOutput", "Done">>,
   <<"CommitNote", "Done">>, <<"FetchTemplate", "Error">>,
   <<"CommitNote", "Error">>}

\* a usage error ends the run before the handler starts
UsageEdges == {<<"ParseArgs", "UsageError">>}

\* a command that cannot be spawned makes the awaited call throw
SpawnAbortEdges ==
  {<<"FetchTemplate", "Aborted">>, <<"CommitNote", "Aborted">>}

\* a rendering error thrown by the renderer ends the run
RenderAbortEdges == {<<"Render", "Aborted">>}

FollowsEdges(E) == \A i \in 1..(Len(hist) - 1) : <<hist[i], hist[i+1]>> \in E

\* at most one read and one write, the write after the read returned 0, no
\* two calls in flight
CallDiscipline ==
  /\ Cardinality(Called("getTemplate")) <= 1
  /\ Cardinality(Called("createNote")) <= 1
  /\ Cardinality(inflight) <= 1
  /\ \A i \in Called("createNote") :
       /\ calls[1].op = "getTemplate"
       /\ i = 2
       /\ template.code = 0
       /\ "getTemplate" \notin inflight

\* C9: every run moves only along the edges of the state machine, from
\* ParseArgs to Done, with Error entered from FetchTemplate or CommitNote
\* alone, under the call discipline.  The ends the claim is silent about (a
\* usage error, a command that cannot be spawned) are granted to it.
C9_OnlyMachineEdges ==
  /\ FollowsEdges(Edges \cup UsageEdges \cup SpawnAbortEdges)
  /\ CallDiscipline

\* C9, amended: a run moves along the edges of the state machine or ends
\* early, in a usage error at ParseArgs or aborted by an exception at
\* FetchTemplate, Render or CommitNote; the read and the write are each
\* called at most once, the write only after the read returned status 0,
\* never two at a time; and from Error, as from every end state, no step
\* follows: no further call and no further output.
C9_StateMachine ==
  [][/\ FollowsEdges(Edges \cup UsageEdges \cup SpawnAbortEdges \cup RenderAbortEdges)'
     /\ CallDiscipline'
     /\ hist'[Len(hist')] = pc'
     /\ pc \notin Terminal]_vars

C9_Witness ==
  /\ pc = "Aborted"
  /\ Visited("Render")
  /\ ~Visited("RewriteHeading")
  /\ Len(calls) = 1

====
